---- MODULE Spec2Model ----
(***************************************************************************)
(* A model of the SIL optimization driver, tools/sil-opt/SILOpt.cpp:       *)
(* main() and runCommandLineSelectedPasses().  The command line is chosen  *)
(* in Init; every statement of main() that the properties below talk about *)
(* is one action, and pc is main()'s position.  The pass manager's run     *)
(* loop, the analysis cache, the two preset pipelines and the diagnostic   *)
(* verifier are called by this file but defined elsewhere in the           *)
(* repository; they are modelled after their specification (sections 4.2   *)
(* to 4.5) and marked so at their definitions.                             *)
(***************************************************************************)
EXTENDS Integers, Sequences, FiniteSets, TLC

\* ------------------------------------------------------------- bounds

\* Longest explicit pass list given on the command line.
MaxPasses == 2

\* Most analysis requests one pass invocation makes.
MaxGets == 1

\* ---------------------------------------------------------- vocabulary

\* enum class PassKind: the closed set of pass identifiers.
PassKind ==
  { "AllocBoxToStack", "CapturePromotion", "DiagnosticCCP", "PerformanceCCP",
    "CSE", "DefiniteInit", "NoReturn", "DiagnoseUnreachable",
    "DataflowDiagnostics", "GlobalOpt", "InOutDeshadowing",
    "MandatoryInlining", "PredictableMemoryOpt", "SILCleanup", "SILMem2Reg",
    "SILCombine", "SILDeadFunctionElimination", "SILSpecialization",
    "SILDevirt", "SimplifyCFG", "PerformanceInlining", "CodeMotion",
    "LowerAggregateInstrs", "SROA", "ARCOpts", "StripDebugInfo",
    "DeadObjectElimination", "InstCount", "AADumper", "LoadStoreOpts",
    "SILLinker", "GlobalARCOpts", "DCE", "EnumSimplification" }

\* enum class OptGroup.
OptGroup == { "Unknown", "Diagnostics", "Performance" }

\* The pass identifiers the explicit lists of this model are built from.
ListedKinds == { "DefiniteInit", "SILDeadFunctionElimination" }

\* The switch of runCommandLineSelectedPasses: the factory called for a kind.
createPass(kind) ==
  CASE kind = "AllocBoxToStack" -> "createAllocBoxToStack"
    [] kind = "CapturePromotion" -> "createCapturePromotion"
    [] kind = "DiagnosticCCP" -> "createDiagnosticConstantPropagation"
    [] kind = "PerformanceCCP" -> "createPerformanceConstantPropagation"
    [] kind = "CSE" -> "createCSE"
    [] kind = "NoReturn" -> "createNoReturnFolding"
    [] kind = "DiagnoseUnreachable" -> "createDiagnoseUnreachable"
    [] kind = "DefiniteInit" -> "createDefiniteInitialization"
    [] kind = "DataflowDiagnostics" -> "createEmitDFDiagnostics"
    [] kind = "InOutDeshadowing" -> "createInOutDeshadowing"
    [] kind = "GlobalOpt" -> "createGlobalOpt"
    [] kind = "MandatoryInlining" -> "createMandatoryInlining"
    [] kind = "PredictableMemoryOpt" -> "createPredictableMemoryOptimizations"
    [] kind = "SILCleanup" -> "createSILCleanup"
    [] kind = "SILMem2Reg" -> "createMem2Reg"
    [] kind = "SILCombine" -> "createSILCombine"
    [] kind = "SILDeadFunctionElimination" -> "createDeadFunctionElimination"
    [] kind = "SILSpecialization" -> "createGenericSpecializer"
    [] kind = "SILDevirt" -> "createDevirtualization"
    [] kind = "SimplifyCFG" -> "createSimplifyCFG"
    [] kind = "PerformanceInlining" -> "createPerfInliner"
    [] kind = "CodeMotion" -> "createCodeMotion"
    [] kind = "LowerAggregateInstrs" -> "createLowerAggregate"
    [] kind = "SROA" -> "createSROA"
    [] kind = "ARCOpts" -> "createARCOpts"
    [] kind = "StripDebugInfo" -> "createStripDebug"
    [] kind = "DeadObjectElimination" -> "createDeadObjectElimination"
    [] kind = "InstCount" -> "createSILInstCount"
    [] kind = "AADumper" -> "createSILAADumper"
    [] kind = "LoadStoreOpts" -> "createLoadStoreOpts"
    [] kind = "SILLinker" -> "createSILLinker"
    [] kind = "GlobalARCOpts" -> "createGlobalARCOpts"
    [] kind = "DCE" -> "createDCE"
    [] kind = "EnumSimplification" -> "createEnumSimplification"

\* The analyses registered with the pass manager.
AnalysisKinds == { "CallGraph", "Alias", "Dominance" }

\* The analyses the passes of this model ask for.
RequestedKinds == { "CallGraph", "Alias" }

\* The canonical pass list of a preset group (section 4.2: fixed, non-empty,
\* definite initialization before diagnostic emission; the performance
\* pipeline holds dead function elimination).
GroupPipeline(group) ==
  IF group = "Diagnostics"
  THEN << createPass("DefiniteInit"), createPass("DataflowDiagnostics") >>
  ELSE << createPass("SILDeadFunctionElimination") >>

\* DiagnosticRecord: severity and source location.
Diag(sev, loc) == [severity |-> sev, loc |-> loc]

\* What a pass may emit in one invocation: nothing, or one of these.
PassDiags == { Diag("error", 1), Diag("warning", 1) }

\* The expected-diagnostic annotations an input may carry.
ExpectedDiags == PassDiags \cup { Diag("error", 2) }

\* The invalidations a pass may declare with its result.
Invalidations == { {}, {"CallGraph"} }

NoEntry == [inst |-> 0, ver |-> 0 - 1, rev |-> 0 - 1]
NoResult == [kind |-> "none", inst |-> 0, ver |-> 0 - 1, rev |-> 0 - 1]

\* Sequences over S of length at most n.
SeqUpTo(S, n) == UNION { [1..k -> S] : k \in 0..n }

\* ------------------------------------------------------------- state

VARIABLES
  VerifyMode,          \* -verify
  OptimizationGroup,   \* -diagnostics / -performance, OptGroup::Unknown if none
  Passes,              \* the explicit pass list, in command-line order
  EnableSILVerifyAll,  \* -enable-sil-verify-all
  pc,                  \* main()'s position
  semaError,           \* parsing / semantic analysis diagnosed an error
  astHadError,         \* CI.getASTContext().hadError()
  printedDiags,        \* diagnostics PrintDiags wrote to stderr
  verifierInstalled,   \* the verifier's handler is set on the SourceMgr
  captured,            \* diagnostics the verifier buffered
  verifyAll,           \* SILOpts.VerifyAll
  passIt,              \* position of "for (auto Pass : Passes)"
  pmPasses,            \* the pass manager's sequence of pass instances
  pmState,             \* Idle, Running, Completed, Failed
  idx,                 \* passes of pmPasses already invoked
  ran,                 \* log of pass invocations
  module,              \* the SIL module: revision and structural validity
  cacheVersion,        \* the analysis cache's module version
  cacheEntries,        \* registered analysis kind -> cached instance
  computations,        \* analysis kind -> results of it computed so far
  observed,            \* the result the running pass was last handed
  gets,                \* analysis requests of the running pass
  printed,             \* module snapshots written to the output
  HadError,            \* main()'s local
  expected,            \* the expected-* annotations, once parsed
  verdict,             \* the verifier's mismatch lists, once computed
  ret,                 \* exit status, once returned
  exitLine             \* source line of the exit taken, 0 while running

inputVars == << VerifyMode, OptimizationGroup, Passes, EnableSILVerifyAll >>
frontVars == << inputVars, semaError >>
diagVars == << astHadError, printedDiags, captured >>
pmVars == << passIt, pmPasses, pmState, idx, ran >>
cacheVars == << cacheVersion, cacheEntries, computations, observed, gets >>
exitVars == << HadError, expected, verdict, ret, exitLine >>
vars == << frontVars, pc, diagVars, verifierInstalled, verifyAll, pmVars,
           module, cacheVars, printed, exitVars >>

NoVerdict == [computed |-> FALSE, unmatchedExpected |-> {},
              unmatchedActual |-> << >>]

Init ==
  /\ VerifyMode \in BOOLEAN
  /\ OptimizationGroup \in OptGroup
  /\ Passes \in SeqUpTo(ListedKinds, MaxPasses)
  /\ EnableSILVerifyAll \in BOOLEAN
  /\ pc = "load"
  /\ semaError = FALSE
  /\ astHadError = FALSE
  /\ printedDiags = << >>
  /\ verifierInstalled = FALSE
  /\ captured = << >>
  /\ verifyAll = FALSE
  /\ passIt = 0
  /\ pmPasses = << >>
  /\ pmState = "Idle"
  /\ idx = 0
  /\ ran = << >>
  /\ module = [rev |-> 0, valid |-> TRUE]
  /\ cacheVersion = 0
  /\ cacheEntries = << >>
  /\ computations = << >>
  /\ observed = NoResult
  /\ gets = 0
  /\ printed = << >>
  /\ HadError = FALSE
  /\ expected = {}
  /\ verdict = NoVerdict
  /\ ret = 0
  /\ exitLine = 0

\* ------------------------------------------------------- diagnostics

\* The diagnostic engine: an error marks the AST context; the record goes to
\* the verifier's buffer while the verifier is installed, to stderr otherwise.
Emit(d) ==
  /\ astHadError' = (astHadError \/ d.severity = "error")
  /\ IF verifierInstalled
     THEN captured' = Append(captured, d) /\ UNCHANGED printedDiags
     ELSE printedDiags' = Append(printedDiags, d) /\ UNCHANGED captured

\* return / exit with status r at source line l.
Exit(r, l) == pc' = "done" /\ ret' = r /\ exitLine' = l

\* ------------------------------------------------- main(): front end

\* Lines 431-436: the input file cannot be read: exit(-1).
LoadInputFails ==
  /\ pc = "load"
  /\ Exit(0 - 1, 435)
  /\ UNCHANGED << frontVars, diagVars, verifierInstalled, verifyAll, pmVars,
                  module, cacheVars, printed, HadError, expected, verdict >>

\* Lines 431-457: the input is read and the compiler instance gets PrintDiags.
LoadInput ==
  /\ pc = "load"
  /\ pc' = "setup"
  /\ UNCHANGED << frontVars, diagVars, verifierInstalled, verifyAll, pmVars,
                  module, cacheVars, printed, exitVars >>

\* Lines 459-460: if (CI.setup(Invocation)) return 1.
Setup ==
  /\ pc = "setup"
  /\ \E failed \in BOOLEAN :
       IF failed
       THEN Exit(1, 460)
       ELSE pc' = "sema" /\ UNCHANGED << ret, exitLine >>
  /\ UNCHANGED << frontVars, diagVars, verifierInstalled, verifyAll, pmVars,
                  module, cacheVars, printed, HadError, expected, verdict >>

\* Line 461: CI.performSema() parses the input; it may diagnose an error.
PerformSema ==
  /\ pc = "sema"
  /\ pc' = "checkSema"
  /\ \E parseError \in BOOLEAN :
       /\ semaError' = parseError
       /\ IF parseError
          THEN Emit(Diag("error", 1))
          ELSE UNCHANGED diagVars
  /\ UNCHANGED << inputVars, verifierInstalled, verifyAll, pmVars, module,
                  cacheVars, printed, exitVars >>

\* A main() without the check of lines 463-465.
CheckParseErrorSkipped ==
  /\ pc = "checkSema"
  /\ pc' = "verifyMode"
  /\ UNCHANGED << frontVars, diagVars, verifierInstalled, verifyAll, pmVars,
                  module, cacheVars, printed, exitVars >>

\* Lines 463-465: a parse error returns 1 before any pass is set up.  (Lines
\* 467-476, which load a serialized module's SIL, touch nothing kept here.)
CheckParseError ==
  /\ pc = "checkSema"
  /\ IF astHadError
     THEN Exit(1, 465)
     ELSE pc' = "verifyMode" /\ UNCHANGED << ret, exitLine >>
  /\ UNCHANGED << frontVars, diagVars, verifierInstalled, verifyAll, pmVars,
                  module, cacheVars, printed, HadError, expected, verdict >>

\* Lines 478-481: in verify mode the verifier takes over the SourceMgr.
InstallVerifier ==
  /\ pc = "verifyMode"
  /\ verifierInstalled' = VerifyMode
  /\ pc' = "silOpts"
  /\ UNCHANGED << frontVars, diagVars, verifyAll, pmVars, module, cacheVars,
                  printed, exitVars >>

\* SIL options that never get the verify-all flag.
SetSILOptionsNoVerifyAll ==
  /\ pc = "silOpts"
  /\ verifyAll' = FALSE
  /\ pc' = "group"
  /\ UNCHANGED << frontVars, diagVars, verifierInstalled, pmVars, module,
                  cacheVars, printed, exitVars >>

\* Lines 483-489: the flags are copied into the SIL options; VerifyAll is the
\* one the pass manager's control flow depends on.
SetSILOptions ==
  /\ pc = "silOpts"
  /\ verifyAll' = EnableSILVerifyAll
  /\ pc' = "group"
  /\ UNCHANGED << frontVars, diagVars, verifierInstalled, pmVars, module,
                  cacheVars, printed, exitVars >>

\* runSILDiagnosticPasses / runSILOptimizationPasses (section 4.2): a pass
\* manager over the module with the group's canonical pass list.
RunGroupPipeline(group) ==
  /\ pmPasses' = [i \in 1..Len(GroupPipeline(group)) |->
                    [pass |-> GroupPipeline(group)[i], from |-> "group"]]
  /\ cacheEntries' = [k \in AnalysisKinds |-> NoEntry]
  /\ computations' = [k \in AnalysisKinds |-> 0]
  /\ pc' = "pmRun"
  /\ UNCHANGED passIt

\* A main() that runs the explicit list whatever the group.
SelectPipelineIgnoringGroup ==
  /\ pc = "group"
  /\ pc' = "register"
  /\ UNCHANGED << frontVars, diagVars, verifierInstalled, verifyAll, pmVars,
                  module, cacheVars, printed, exitVars >>

\* Lines 491-497: the group, if one is given, decides what runs.
SelectPipeline ==
  /\ pc = "group"
  /\ IF OptimizationGroup \in { "Diagnostics", "Performance" }
     THEN RunGroupPipeline(OptimizationGroup)
     ELSE /\ pc' = "register"
          /\ UNCHANGED << passIt, pmPasses, cacheEntries, computations >>
  /\ UNCHANGED << frontVars, diagVars, verifierInstalled, verifyAll, pmState,
                  idx, ran, module, cacheVersion, observed, gets,
                  printed, exitVars >>

\* ------------------------------------- runCommandLineSelectedPasses()

\* Lines 280-284: the pass manager is built and the analyses registered.
RegisterAnalyses ==
  /\ pc = "register"
  /\ cacheEntries' = [k \in AnalysisKinds |-> NoEntry]
  /\ computations' = [k \in AnalysisKinds |-> 0]
  /\ pc' = "addPasses"
  /\ UNCHANGED << frontVars, diagVars, verifierInstalled, verifyAll, pmVars,
                  module, cacheVersion, observed, gets, printed, exitVars >>

\* A loop that adds a kind once only, however often the list names it.
AddPassOnce ==
  /\ pc = "addPasses"
  /\ IF passIt < Len(Passes)
     THEN /\ passIt' = passIt + 1
          /\ pmPasses' =
               IF \E j \in 1..Len(pmPasses) :
                    pmPasses[j].pass = createPass(Passes[passIt + 1])
               THEN pmPasses
               ELSE Append(pmPasses, [pass |-> createPass(Passes[passIt + 1]),
                                      from |-> "explicit"])
          /\ pc' = pc
     ELSE pc' = "pmRun" /\ UNCHANGED << passIt, pmPasses >>
  /\ UNCHANGED << frontVars, diagVars, verifierInstalled, verifyAll, pmState,
                  idx, ran, module, cacheVars, printed, exitVars >>

\* Lines 285-390: one iteration of "for (auto Pass : Passes)": PM.add of the
\* pass the switch creates; after the last one, line 391.
AddPass ==
  /\ pc = "addPasses"
  /\ IF passIt < Len(Passes)
     THEN /\ passIt' = passIt + 1
          /\ pmPasses' = Append(pmPasses,
                                [pass |-> createPass(Passes[passIt + 1]),
                                 from |-> "explicit"])
          /\ pc' = pc
     ELSE pc' = "pmRun" /\ UNCHANGED << passIt, pmPasses >>
  /\ UNCHANGED << frontVars, diagVars, verifierInstalled, verifyAll, pmState,
                  idx, ran, module, cacheVars, printed, exitVars >>

\* --------------------------------------- analysis cache (section 4.3)

\* An entry is valid only while its recorded version is the current one.
ValidEntry(k) ==
  cacheEntries[k] # NoEntry /\ cacheEntries[k].ver = cacheVersion

\* The result handed to a pass: the entry, under its kind.
Result(k, e) == [kind |-> k, inst |-> e.inst, ver |-> e.ver, rev |-> e.rev]

\* A computation of kind k against the module as it is now; the instance is
\* named by how many results of that kind were computed before it.
Compute(k) ==
  [inst |-> computations[k] + 1, ver |-> cacheVersion, rev |-> module.rev]

\* get that hands out whatever entry is stored, whatever its version.
CacheGetUnversioned(k) ==
  IF cacheEntries[k] # NoEntry
  THEN /\ observed' = Result(k, cacheEntries[k])
       /\ UNCHANGED << cacheEntries, computations >>
  ELSE /\ computations' = [computations EXCEPT ![k] = @ + 1]
       /\ cacheEntries' = [cacheEntries EXCEPT ![k] = Compute(k)]
       /\ observed' = Result(k, Compute(k))

\* get(kind): the cached instance at the current version, else computed and
\* stored.
CacheGet(k) ==
  IF ValidEntry(k)
  THEN /\ observed' = Result(k, cacheEntries[k])
       /\ UNCHANGED << cacheEntries, computations >>
  ELSE /\ computations' = [computations EXCEPT ![k] = @ + 1]
       /\ cacheEntries' = [cacheEntries EXCEPT ![k] = Compute(k)]
       /\ observed' = Result(k, Compute(k))

\* invalidate(kinds): evicts the named entries and advances the version; an
\* empty declaration invalidates nothing.
CacheInvalidate(kinds) ==
  IF kinds = {}
  THEN UNCHANGED << cacheEntries, cacheVersion >>
  ELSE /\ cacheEntries' = [k \in DOMAIN cacheEntries |->
                             IF k \in kinds THEN NoEntry ELSE cacheEntries[k]]
       /\ cacheVersion' = cacheVersion + 1

\* The pass manager goes out of scope (line 392) and its cache with it.
CacheDestroyed ==
  /\ cacheEntries' = << >>
  /\ computations' = << >>
  /\ cacheVersion' = 0

\* ------------------------------------ pass manager run (section 4.4)

\* Line 391, PM.run(): Idle -> Running.
PMStart ==
  /\ pc = "pmRun"
  /\ pmState = "Idle"
  /\ pmState' = "Running"
  /\ pc' = "pmLoop"
  /\ UNCHANGED << frontVars, diagVars, verifierInstalled, verifyAll, passIt,
                  pmPasses, idx, ran, module, cacheVars, printed,
                  exitVars >>

\* Step 1: the next pass of the sequence is invoked.
InvokePass ==
  /\ pc = "pmLoop"
  /\ idx < Len(pmPasses)
  /\ idx' = idx + 1
  /\ ran' = Append(ran, [pass |-> pmPasses[idx + 1].pass,
                         from |-> pmPasses[idx + 1].from,
                         emitted |-> << >>, broke |-> FALSE, hard |-> FALSE])
  /\ pc' = "inPass"
  /\ UNCHANGED << frontVars, diagVars, verifierInstalled, verifyAll, passIt,
                  pmPasses, pmState, module, cacheVars, printed,
                  exitVars >>

\* The running pass asks the cache for an analysis.
PassGet ==
  /\ pc = "inPass"
  /\ gets < MaxGets
  /\ gets' = gets + 1
  /\ \E k \in RequestedKinds \cap DOMAIN cacheEntries : CacheGet(k)
  /\ UNCHANGED << frontVars, pc, diagVars, verifierInstalled, verifyAll,
                  pmVars, module, cacheVersion, printed, exitVars >>

\* Steps 2, 4 and 5 after a pass that declared the invalidation inv and the
\* hard failure hard: the consistency check if VerifyAll is set (a failing
\* check is fatal), the declared invalidation, the hard failure; then the
\* loop goes on, or the sequence is exhausted.  On Failed and on Completed
\* PM.run() returns.  (Step 3, the trace of the module, changes no state kept
\* here.)
PostPass(inv, hard) ==
  IF (verifyAll /\ ~module'.valid) \/ hard
  THEN pmState' = "Failed" /\ pc' = "output" /\ CacheDestroyed
  ELSE IF idx = Len(pmPasses)
       THEN pmState' = "Completed" /\ pc' = "output" /\ CacheDestroyed
       ELSE /\ pmState' = pmState
            /\ pc' = "pmLoop"
            /\ CacheInvalidate(inv)
            /\ UNCHANGED computations

\* The running pass returns: it may have emitted a diagnostic, may have
\* mutated the module (declaring what that invalidates, and perhaps leaving
\* a valid module structurally invalid), and may report a hard failure.  It
\* keeps no analysis result beyond its invocation.  The pass manager's
\* post-pass steps follow.
PassReturn ==
  /\ pc = "inPass"
  /\ \E emits \in { << >> } \cup { << d >> : d \in PassDiags },
        inv \in Invalidations, breaks \in BOOLEAN, hard \in BOOLEAN :
       /\ breaks => (inv # {} /\ module.valid)
       /\ IF emits = << >> THEN UNCHANGED diagVars ELSE Emit(emits[1])
       /\ module' = IF inv = {} THEN module
                    ELSE [rev |-> module.rev + 1,
                          valid |-> module.valid /\ ~breaks]
       /\ ran' = [ran EXCEPT ![Len(ran)] =
                    [@ EXCEPT !.emitted = emits, !.broke = breaks,
                              !.hard = hard]]
       /\ PostPass(inv, hard)
  /\ observed' = NoResult
  /\ gets' = 0
  /\ UNCHANGED << frontVars, verifierInstalled, verifyAll, passIt, pmPasses,
                  idx, printed, exitVars >>

\* PM.run() on an empty sequence: Running -> Completed at once.
PMComplete ==
  /\ pc = "pmLoop"
  /\ idx = Len(pmPasses)
  /\ pmState' = "Completed"
  /\ pc' = "output"
  /\ CacheDestroyed
  /\ UNCHANGED << frontVars, diagVars, verifierInstalled, verifyAll, passIt,
                  pmPasses, idx, ran, module, observed, gets, printed,
                  exitVars >>

\* ---------------------------------------------------- main(): back end

\* Lines 499-508: the output stream is opened and the module printed to it;
\* if it cannot be opened, return 1.
OpenOutput ==
  /\ pc = "output"
  /\ \E opened \in BOOLEAN :
       IF opened
       THEN /\ printed' = Append(printed, module)
            /\ pc' = "hadError"
            /\ UNCHANGED << ret, exitLine >>
       ELSE Exit(1, 505) /\ UNCHANGED printed
  /\ UNCHANGED << frontVars, diagVars, verifierInstalled, verifyAll, pmVars,
                  module, cacheVars, HadError, expected, verdict >>

\* A result that starts out as "no error".
ReadHadErrorCleared ==
  /\ pc = "hadError"
  /\ HadError' = FALSE
  /\ pc' = "verify"
  /\ UNCHANGED << frontVars, diagVars, verifierInstalled, verifyAll, pmVars,
                  module, cacheVars, printed, expected, verdict, ret,
                  exitLine >>

\* Line 510: bool HadError = CI.getASTContext().hadError().
ReadHadError ==
  /\ pc = "hadError"
  /\ HadError' = astHadError
  /\ pc' = "verify"
  /\ UNCHANGED << frontVars, diagVars, verifierInstalled, verifyAll, pmVars,
                  module, cacheVars, printed, expected, verdict, ret,
                  exitLine >>

\* verify(actual, expected) of section 4.5: every actual diagnostic consumes
\* the expected entry of its severity and location, if one is left.
RECURSIVE MatchDiagnostics(_, _, _)
MatchDiagnostics(actual, exp, unmatched) ==
  IF actual = << >>
  THEN [computed |-> TRUE, unmatchedExpected |-> exp,
        unmatchedActual |-> unmatched]
  ELSE IF \E e \in exp : e.severity = Head(actual).severity
                         /\ e.loc = Head(actual).loc
       THEN MatchDiagnostics(Tail(actual), exp \ { Head(actual) }, unmatched)
       ELSE MatchDiagnostics(Tail(actual), exp,
                             Append(unmatched, Head(actual)))

\* verifyDiagnostics(): the verifier is taken off the SourceMgr, the
\* expected-* annotations are read from the input buffers and the verifier's
\* buffer is matched against them; true means a mismatch.
verifyDiagnostics ==
  /\ expected' \in SUBSET ExpectedDiags
  /\ verdict' = MatchDiagnostics(captured, expected', << >>)
  /\ verifierInstalled' = FALSE
  /\ HadError' = (verdict'.unmatchedExpected # {}
                  \/ verdict'.unmatchedActual # << >>)

\* A back end that never consults the verifier.
VerifyDiagnosticsSkipped ==
  UNCHANGED << expected, verdict, verifierInstalled, HadError >>

\* Lines 512-515: in verify mode the verifier's verdict replaces HadError.
VerifyDiagnostics ==
  IF VerifyMode
  THEN verifyDiagnostics
  ELSE UNCHANGED << expected, verdict, verifierInstalled, HadError >>

\* A main() that ends in "return 0".
ReturnSuccess ==
  /\ pc = "verify"
  /\ VerifyDiagnostics
  /\ Exit(0, 518)
  /\ UNCHANGED << frontVars, diagVars, verifyAll, pmVars, module, cacheVars,
                  printed >>

\* Lines 512-518: the verification, then return HadError.
Return ==
  /\ pc = "verify"
  /\ VerifyDiagnostics
  /\ Exit(IF HadError' THEN 1 ELSE 0, 518)
  /\ UNCHANGED << frontVars, diagVars, verifyAll, pmVars, module, cacheVars,
                  printed >>

Next ==
  \/ LoadInputFails
  \/ LoadInput
  \/ Setup
  \/ PerformSema
  \/ CheckParseError
  \/ InstallVerifier
  \/ SetSILOptions
  \/ SelectPipeline
  \/ RegisterAnalyses
  \/ AddPass
  \/ PMStart
  \/ InvokePass
  \/ PassGet
  \/ PassReturn
  \/ PMComplete
  \/ OpenOutput
  \/ ReadHadError
  \/ Return

Spec == Init /\ [][Next]_vars

\* ------------------------------------------------------- properties

\* Some diagnostic of error severity is in d.
HasError(d) == \E i \in DOMAIN d : d[i].severity = "error"

\* An error-severity diagnostic was emitted, to stderr or to the verifier.
ErrorEmitted == HasError(printedDiags) \/ HasError(captured)

\* The pass manager was started.
Started == pmState # "Idle"

\* Pass i of the log has returned.
Finished(i) == i < Len(ran) \/ pc # "inPass"

\* The pass names of a sequence of pass instances.
Names(ps) == [i \in DOMAIN ps |-> ps[i].pass]

\* What the logged passes emitted, in order.
RECURSIVE EmittedBy(_)
EmittedBy(log) ==
  IF log = << >> THEN << >> ELSE Head(log).emitted \o EmittedBy(Tail(log))

\* C1: once parsing / semantic analysis has diagnosed an error, main() is
\* past its check only by having returned 1, with no pass instantiated or
\* invoked and the pass manager never started, whatever passes or group the
\* command line selects.
C1_ParseErrorRunsNoPass ==
  (semaError /\ pc # "checkSema") =>
    /\ pc = "done" /\ ret = 1
    /\ pmState = "Idle" /\ pmPasses = << >> /\ ran = << >>

C1_Witness ==
  /\ semaError /\ pc = "done" /\ ret = 1
  /\ OptimizationGroup = "Diagnostics" /\ Len(Passes) = 2

C3_GroupTakesPrecedence ==
  IF OptimizationGroup \in { "Diagnostics", "Performance" }
  THEN /\ passIt = 0
       /\ \A i \in DOMAIN pmPasses : pmPasses[i].from = "group"
       /\ \A i \in DOMAIN ran : ran[i].from = "group"
       /\ Started => Names(pmPasses) = GroupPipeline(OptimizationGroup)
  ELSE /\ \A i \in DOMAIN pmPasses : pmPasses[i].from = "explicit"
       /\ \A i \in DOMAIN ran : ran[i].from = "explicit"

C3_Witness ==
  /\ OptimizationGroup = "Diagnostics"
  /\ Passes = << "SILDeadFunctionElimination", "DefiniteInit" >>
  /\ pmState = "Completed" /\ Len(ran) = 2

\* C4 as stated: however the run ended (on an input with a parse error, with
\* the pass manager Failed, or Completed) the current module was printed.
C4_ModuleAlwaysPrinted ==
  (pc = "done" /\ (semaError \/ Started)) => printed = << module >>

\* C5: with -enable-sil-verify-all, a pass that leaves the module
\* structurally invalid is the last pass invoked: once it returned the pass
\* manager is Failed and no later pass is in the log.
C5_CheckFailureStopsRun ==
  EnableSILVerifyAll =>
    \A i \in DOMAIN ran :
      (ran[i].broke /\ Finished(i)) =>
        pmState = "Failed" /\ Len(ran) = i /\ idx = i

C5_Witness ==
  /\ EnableSILVerifyAll /\ pc = "done"
  /\ Len(pmPasses) = 2 /\ Len(ran) = 1 /\ ran[1].broke /\ ~ran[1].hard
  /\ pmState = "Failed"

\* Pass i of the log emitted an error and met no fatal condition.
OnlyDiagnosed(i) ==
  /\ Finished(i)
  /\ HasError(ran[i].emitted)
  /\ ~ran[i].hard
  /\ ~(verifyAll /\ ran[i].broke)

\* C6: a pass that only emits an error diagnostic does not stop the loop: the
\* pass manager fails only on a hard failure or a failed consistency check
\* of the last pass invoked, otherwise every pass of the sequence is run and
\* it ends Completed; the had-error flag main() reads at line 510 is then
\* set (and is the exit status in standard mode), and every diagnostic the
\* passes emitted is collected, in order, by the printing consumer or by
\* the verifier.
C6_DiagnosticsDoNotStopTheLoop ==
  /\ pmState = "Failed" =>
       /\ ran # << >>
       /\ ran[Len(ran)].hard \/ (verifyAll /\ ran[Len(ran)].broke)
  /\ \A i \in DOMAIN ran :
       OnlyDiagnosed(i) =>
         /\ (pmState = "Failed" => Len(ran) > i)
         /\ (pmState = "Completed" => Len(ran) = Len(pmPasses))
         /\ (pc = "verify" => HadError)
         /\ (pc = "done" /\ ~VerifyMode => ret = 1)
  /\ Started =>
       IF VerifyMode
       THEN captured = EmittedBy(ran) /\ printedDiags = << >>
       ELSE printedDiags = EmittedBy(ran) /\ captured = << >>

C6_Witness ==
  /\ pc = "done" /\ exitLine = 518 /\ ret = 1 /\ ~VerifyMode
  /\ pmState = "Completed" /\ Len(ran) = 2
  /\ OnlyDiagnosed(1)
  /\ printedDiags = << Diag("error", 1), Diag("warning", 1) >>

\* The captured diagnostics that match the expected entry e.
Matching(e) ==
  { i \in DOMAIN captured :
      captured[i].severity = e.severity /\ captured[i].loc = e.loc }

\* C7: in verify mode main() returns 0 exactly when no expected entry and no
\* captured diagnostic is left unmatched; an expected entry is unmatched
\* when no captured diagnostic has its severity and location, and each
\* expected entry accounts for one captured diagnostic only, the others
\* being reported as unmatched actual diagnostics; with no expectation and
\* one error captured there is one unmatched actual diagnostic and no
\* unmatched expected entry.
C7_VerifierVerdict ==
  (pc = "done" /\ exitLine = 518 /\ VerifyMode) =>
    /\ verdict.computed
    /\ (ret = 0) <=> (verdict.unmatchedExpected = {}
                      /\ verdict.unmatchedActual = << >>)
    /\ verdict.unmatchedExpected = { e \in expected : Matching(e) = {} }
    /\ Len(verdict.unmatchedActual) =
         Len(captured) - Cardinality({ e \in expected : Matching(e) # {} })
    /\ \A j \in DOMAIN verdict.unmatchedActual :
         \E i \in DOMAIN captured : captured[i] = verdict.unmatchedActual[j]
    /\ (expected = {} /\ captured = << Diag("error", 1) >>) =>
         /\ verdict.unmatchedActual = << Diag("error", 1) >>
         /\ verdict.unmatchedExpected = {}
         /\ ret = 1

C7_Witness ==
  /\ pc = "done" /\ exitLine = 518 /\ VerifyMode
  /\ expected = {} /\ captured = << Diag("error", 1) >>
  /\ Len(verdict.unmatchedActual) = 1 /\ verdict.unmatchedExpected = {}
  /\ ret = 1

\* The entry cached for k was computed against the module as it is now.
Fresh(k) == cacheEntries[k] # NoEntry /\ cacheEntries[k].rev = module.rev

\* C8: the result a running pass holds was computed at the cache's current
\* version and against the module's current revision, and is the instance
\* the cache stores; a request for a kind whose cached instance is fresh
\* returns that instance and computes nothing, any other request computes
\* exactly one new result, of that kind.
C8_NoStaleAnalysis ==
  /\ [](pc = "inPass" /\ observed # NoResult =>
          /\ observed.ver = cacheVersion
          /\ observed.rev = module.rev
          /\ cacheEntries[observed.kind] =
               [inst |-> observed.inst, ver |-> observed.ver,
                rev |-> observed.rev])
  /\ [][gets' = gets + 1 =>
          IF Fresh(observed'.kind)
          THEN /\ observed'.inst = cacheEntries[observed'.kind].inst
               /\ computations' = computations
          ELSE computations' =
                 [computations EXCEPT ![observed'.kind] = @ + 1]]_vars

\* The second pass gets a recomputed instance after the first invalidated.
C8_Witness ==
  /\ pc = "inPass" /\ Len(ran) = 2
  /\ observed.kind = "Alias" /\ observed.inst = 2
  /\ cacheVersion = 1 /\ module.rev = 1

\* C9: with no group, the pass manager holds one pass instance per entry of
\* the explicit list read so far, in the list's order, repetitions included;
\* the passes are invoked in that order, one at a time, all of them when the
\* run completes; an empty list runs nothing and leaves the module as it was.
C9_ExplicitListOrder ==
  OptimizationGroup = "Unknown" =>
    /\ Len(pmPasses) = passIt
    /\ \A i \in DOMAIN pmPasses :
         pmPasses[i] = [pass |-> createPass(Passes[i]), from |-> "explicit"]
    /\ Started => Len(pmPasses) = Len(Passes)
    /\ Len(ran) = idx
    /\ \A i \in DOMAIN ran : ran[i].pass = createPass(Passes[i])
    /\ pc = "inPass" => (pmState = "Running" /\ idx >= 1)
    /\ pmState = "Completed" => Len(ran) = Len(Passes)
    /\ (Passes = << >> /\ Started) =>
         ran = << >> /\ module = [rev |-> 0, valid |-> TRUE]

C9_Witness ==
  /\ OptimizationGroup = "Unknown"
  /\ Passes = << "DefiniteInit", "DefiniteInit" >>
  /\ pmState = "Completed" /\ Len(ran) = 2
  /\ ran[1].pass = "createDefiniteInitialization"
  /\ ran[2].pass = "createDefiniteInitialization"

\* C10 as stated: in verify mode the verifier is installed whenever a pass is
\* invoked, and on every exit taken after its installation it has been taken
\* off the SourceMgr with its verdict computed.
C10_VerifierAlwaysFinalized ==
  /\ (VerifyMode /\ pc = "inPass") => verifierInstalled
  /\ (VerifyMode /\ pc = "done" /\ Started) =>
       ~verifierInstalled /\ verdict.computed

\* C11 as stated: once a pass has reported a hard failure the pass manager
\* is Failed and that pass is the last one invoked, and the result of the run
\* has hadError set: the flag main() reads at line 510 is true, and so is
\* the exit status in standard mode.
C11_HardFailureSetsHadError ==
  \A i \in DOMAIN ran :
    (ran[i].hard /\ Finished(i)) =>
      /\ pmState = "Failed" /\ Len(ran) = i /\ idx = i
      /\ (pc = "verify" => HadError)
      /\ (pc = "done" /\ ~VerifyMode => ret = 1)

\* The part of C11 about the loop alone: a hard failure ends it.
HardFailureStopsLoop ==
  \A i \in DOMAIN ran :
    (ran[i].hard /\ Finished(i)) =>
      pmState = "Failed" /\ Len(ran) = i /\ idx = i

====
